---- MODULE Spec2Model ----
(***************************************************************************)
(* Downtime tracker (fawkesdbs/app_dt-lesira): the in-memory index of      *)
(* open downtimes (AppState), the day-partitioned JSON event log           *)
(* (DowntimeLogger) and the presentation-layer handlers that drive them.   *)
(*                                                                         *)
(* Two copies of the code are modelled side by side, selected by the       *)
(* variable "variant":                                                     *)
(*   "core"  : src/core/app_state.py + src/core/downtime_logger.py         *)
(*             (file mode, server_url = None) + src/ui/ui.py               *)
(*   "py38"  : src/dev_py38/state.py + src/dev_py38/logger.py + src/ui.py  *)
(***************************************************************************)
EXTENDS Integers, Sequences, FiniteSets, TLC

\* ------------------------------------------------------------------------
\* Bounds of the model
\* ------------------------------------------------------------------------
MaxDays == 1       \* calendar days 0..MaxDays are visited by the clock
MaxIds == 2        \* at most this many uuid4() values are drawn
MaxOps == 2        \* longest operator list passed to one call
MaxRawLen == 2     \* longest day log handed to get_daily_log as found on disk
MaxEvents == 4     \* at most this many rows are stored in operator_events
MaxSyncs == 3      \* at most this many different pairs are computed by sync

\* ------------------------------------------------------------------------
\* Fixed sets the inputs are drawn from
\* ------------------------------------------------------------------------
Variants == {"core", "py38"}
Terminals == {"t1", "t2"}
Operators == {"Alice", "Bob"}
Stations == {"Line1"}
\* "Smoke break" is not a key of the category map
Reasons == {"Lunch", "Smoke break"}

\* Python's None (json null)
None == <<>>

\* EVENTS: downtime reason -> category
EVENTS == [r \in {"Lunch", "Meeting"} |->
             IF r = "Lunch" THEN "Other" ELSE "Production"]

\* ------------------------------------------------------------------------
\* Time.  The clock counts whole seconds; a datetime is that count.
\* ------------------------------------------------------------------------
DaySeconds == 24 * 60 * 60
\* instants at which the clock is sampled: the start (midnight of day 0),
\* 15 minutes later, and each following midnight
FifteenMinutes == 15 * 60
SampleTimes == {0, FifteenMinutes} \cup {d * DaySeconds : d \in 1..MaxDays}
Days == 0..MaxDays

\* now.strftime("%Y-%m-%d"): the calendar day of a datetime
strftime(t) == t \div DaySeconds

\* datetime.isoformat(): "<date>T<time of day>"
isoformat(t) == <<t \div DaySeconds, t % DaySeconds>>

\* datetime.fromisoformat()
fromisoformat(s) == s[1] * DaySeconds + s[2]

\* duration_minutes_of cutting the hundredths off instead of rounding
duration_minutes_of_truncates(start, end) ==
  LET h == (10 * (end - start)) \div 6
  IN  <<h \div 100, h % 100>>

\* round((now - start_time).total_seconds() / 60, 2) as <<minutes, hundredths>>;
\* seconds * 100 / 60 is never half-way between two integers, so rounding
\* is floor(x + 1/2)
duration_minutes_of(start, end) ==
  LET h == (10 * (end - start) + 3) \div 6
  IN  <<h \div 100, h % 100>>

\* uuid4 drawing the same value every time
uuid4_repeats(n) == "e1"

\* str(uuid.uuid4()) for the n-th draw
uuid4(n) == "e" \o ToString(n)

\* ------------------------------------------------------------------------
\* Sequences
\* ------------------------------------------------------------------------
Range(s) == {s[i] : i \in 1..Len(s)}

SeqsUpTo(S, n) == UNION {[1..k -> S] : k \in 0..n}

OpLists == SeqsUpTo(Operators, MaxOps)

IsPrefix(s, t) == Len(s) <= Len(t) /\ SubSeq(t, 1, Len(s)) = s

\* ------------------------------------------------------------------------
\* A python dict keyed by "id", kept as the sequence of its values in
\* insertion order: d[k] = v
\* ------------------------------------------------------------------------
IdDictPut(d, e) ==
  IF \E i \in 1..Len(d) : d[i].id = e.id
    THEN [i \in 1..Len(d) |-> IF d[i].id = e.id THEN e ELSE d[i]]
    ELSE Append(d, e)

\* "id" in entry
HasId(e) == "id" \in DOMAIN e

RECURSIVE IdDictFrom(_, _)
\* d extended by {entry.get("id"): entry for entry in entries if "id" in entry}
IdDictFrom(d, entries) ==
  IF entries = <<>> THEN d
  ELSE IdDictFrom(IF HasId(Head(entries)) THEN IdDictPut(d, Head(entries))
                  ELSE d,
                  Tail(entries))

IdDictGet(d, k) ==
  IF \E i \in 1..Len(d) : d[i].id = k
    THEN d[CHOOSE i \in 1..Len(d) : d[i].id = k]
    ELSE None

\* ------------------------------------------------------------------------
\* The active_downtimes dict: operator -> {"id", "date_str"}, kept as the
\* set of its items
\* ------------------------------------------------------------------------
Item(op, id, date_str) == [operator |-> op, id |-> id, date_str |-> date_str]

\* DictSet without the replacement of the operator's earlier item
DictSet_keeps_old(d, op, id, date_str) == d \cup {Item(op, id, date_str)}

\* self.active_downtimes[operator] = {"id": event_id, "date_str": date_str}
DictSet(d, op, id, date_str) ==
  {it \in d : it.operator # op} \cup {Item(op, id, date_str)}

\* self.active_downtimes.pop(operator, None)
DictPop(d, op) == {it \in d : it.operator # op}

\* operator in self.active_downtimes
DictHas(d, op) == \E it \in d : it.operator = op

\* self.active_downtimes.get(operator)
DictGet(d, op) ==
  IF DictHas(d, op) THEN CHOOSE it \in d : it.operator = op ELSE None

\* ------------------------------------------------------------------------
\* Storage faults.  A call suffers at most one failed file operation: its
\* at-th read (open/json.load raises) or its at-th write (open("w") raises).
\* ------------------------------------------------------------------------
NoFault == [kind |-> "none", at |-> 1]
Faults == {NoFault} \cup [kind : {"read", "write"}, at : 1..MaxOps]

ReadOk(F, i) == ~(F.kind = "read" /\ F.at = i)
WriteOk(F, i) == ~(F.kind = "write" /\ F.at = i)

\* ------------------------------------------------------------------------
\* DowntimeLogger.  "file" is the content of log_<date_str>.json, the empty
\* sequence when the file does not exist.
\* ------------------------------------------------------------------------

\* load_log: the parsed file, [] when it is missing or the read fails
load_log(file, rd) == IF file # <<>> /\ ~rd THEN <<>> ELSE file

\* the event record built by log_downtime_start
new_entry(entry_id, station, operator, downtime, category, now_iso) ==
  [id |-> entry_id, station |-> station, operator |-> operator,
   downtime |-> downtime, category |-> category, start_time |-> now_iso,
   end_time |-> None, duration_minutes |-> None]

\* the entries one log_downtime_start call builds, ids drawn after n
new_entries(station, operators, downtime, category, now, n) ==
  [i \in 1..Len(operators) |->
     new_entry(uuid4(n + i), station, operators[i], downtime, category,
               isoformat(now))]

\* dev_py38 save_log: rewrite the whole file
py38_save_log(file, log_data, wr) == IF wr THEN log_data ELSE file

\* dev_py38 log_downtime_start
py38_log_downtime_start(file, station, operators, downtime, now, n, F) ==
  LET log_data == load_log(file, ReadOk(F, 1))
  IN  IF downtime \notin DOMAIN EVENTS
        THEN \* EVENTS[downtime] raises KeyError, caught: nothing drawn or saved
             [ids |-> <<>>, file |-> file, drawn |-> 0]
        ELSE LET entries == new_entries(station, operators, downtime,
                                        EVENTS[downtime], now, n)
             IN  [ids |-> [i \in 1..Len(operators) |-> entries[i].id],
                  file |-> py38_save_log(file, log_data \o entries, WriteOk(F, 1)),
                  drawn |-> Len(operators)]

\* closed_entry that leaves duration_minutes alone
closed_entry_without_duration(entry, now) ==
  [entry EXCEPT !.end_time = isoformat(now)]

\* entry closed at now
closed_entry(entry, now) ==
  [entry EXCEPT !.end_time = isoformat(now),
                !.duration_minutes =
                   duration_minutes_of(fromisoformat(entry.start_time), now)]

\* py38_log_downtime_stop without the test "end_time is None"
py38_log_downtime_stop_recloses(file, downtime_ids, now, rd, wr) ==
  LET log_data == load_log(file, rd)
      hit(e) == e.id \in Range(downtime_ids) /\ e.start_time # None
      new_data == [i \in 1..Len(log_data) |->
                     IF hit(log_data[i]) THEN closed_entry(log_data[i], now)
                     ELSE log_data[i]]
      hits == SelectSeq(log_data, hit)
      updated_ids == [i \in 1..Len(hits) |-> hits[i].id]
  IN  [ret |-> updated_ids,
       file |-> IF updated_ids # <<>> THEN py38_save_log(file, new_data, wr)
                ELSE file]

\* dev_py38 log_downtime_stop
py38_log_downtime_stop(file, downtime_ids, now, rd, wr) ==
  LET log_data == load_log(file, rd)
      hit(e) == /\ e.id \in Range(downtime_ids)
                /\ e.end_time = None
                /\ e.start_time # None
      new_data == [i \in 1..Len(log_data) |->
                     IF hit(log_data[i]) THEN closed_entry(log_data[i], now)
                     ELSE log_data[i]]
      hits == SelectSeq(log_data, hit)
      updated_ids == [i \in 1..Len(hits) |-> hits[i].id]
  IN  [ret |-> updated_ids,
       file |-> IF updated_ids # <<>> THEN py38_save_log(file, new_data, wr)
                ELSE file]

\* core save_log, file mode (server_url is None)
core_save_log(file, log_entries, mode, rd, wr) ==
  IF log_entries = <<>> THEN file
  ELSE LET logs == load_log(file, rd)
           out == IF mode = "append" THEN logs \o log_entries
                  ELSE \* eid = entry.get("id"); if eid: log_map[eid] = entry
                       IdDictFrom(IdDictFrom(<<>>, logs),
                                  SelectSeq(log_entries,
                                            LAMBDA e : HasId(e) /\ e.id # ""))
       IN  IF wr THEN out ELSE file

RECURSIVE core_start_loop(_, _, _, _)
\* the loop of core log_downtime_start: one save_log(append) per operator
core_start_loop(file, entries, i, F) ==
  IF i > Len(entries) THEN file
  ELSE core_start_loop(
         core_save_log(file, <<entries[i]>>, "append", ReadOk(F, i), WriteOk(F, i)),
         entries, i + 1, F)

\* core log_downtime_start
core_log_downtime_start(file, station, operators, downtime, now, n, F) ==
  LET category == IF downtime \in DOMAIN EVENTS THEN EVENTS[downtime]
                  ELSE "Unknown"
      entries == new_entries(station, operators, downtime, category, now, n)
  IN  [ids |-> [i \in 1..Len(operators) |-> entries[i].id],
       file |-> core_start_loop(file, entries, 1, F),
       drawn |-> Len(operators)]

RECURSIVE core_stop_loop(_, _, _, _)
\* the loop of core log_downtime_stop over downtime_ids; entries are closed
\* in place in log_map, acc is entries_to_update
core_stop_loop(log_map, downtime_ids, now, acc) ==
  IF downtime_ids = <<>> THEN acc
  ELSE LET entry == IdDictGet(log_map, Head(downtime_ids))
       IN  IF entry # None /\ entry.end_time = None /\ entry.start_time # None
             THEN LET c == closed_entry(entry, now)
                  IN  core_stop_loop(IdDictPut(log_map, c), Tail(downtime_ids),
                                     now, Append(acc, c))
             ELSE core_stop_loop(log_map, Tail(downtime_ids), now, acc)

\* core log_downtime_stop
core_log_downtime_stop(file, downtime_ids, now, rd, rd2, wr) ==
  LET log_data == load_log(file, rd)
      log_map == IdDictFrom(<<>>, log_data)
      entries_to_update == core_stop_loop(log_map, downtime_ids, now, <<>>)
  IN  [ret |-> [i \in 1..Len(entries_to_update) |-> entries_to_update[i].id],
       file |-> core_save_log(file, entries_to_update, "update", rd2, wr)]

\* the log service, as far as the logger uses it: create adds the event to
\* the day log the service holds (stored), list answers with that day log
server_create(stored, entry) == Append(stored, entry)

\* core load_log with server_url set: the server's answer if the GET
\* succeeds with a list, else the local file
core_load_log_server(stored, file, up, rd) ==
  IF up THEN stored ELSE load_log(file, rd)

\* core save_log with server_url set, mode "append": every entry is POSTed;
\* an entry the server accepts joins the day log the server holds.  The
\* local file is not touched.
RECURSIVE core_save_log_server(_, _, _)
core_save_log_server(stored, log_entries, up) ==
  IF log_entries = <<>> \/ ~up THEN stored
  ELSE core_save_log_server(server_create(stored, Head(log_entries)),
                            Tail(log_entries), up)

\* the logger of the running variant
log_downtime_start(v, file, station, operators, downtime, now, n, F) ==
  IF v = "core"
    THEN core_log_downtime_start(file, station, operators, downtime, now, n, F)
    ELSE py38_log_downtime_start(file, station, operators, downtime, now, n, F)

log_downtime_stop(v, file, downtime_ids, now, F) ==
  IF v = "core"
    THEN core_log_downtime_stop(file, downtime_ids, now, ReadOk(F, 1),
                                ReadOk(F, 2), WriteOk(F, 1))
    ELSE py38_log_downtime_stop(file, downtime_ids, now, ReadOk(F, 1),
                                WriteOk(F, 1))

\* ------------------------------------------------------------------------
\* AppState
\* ------------------------------------------------------------------------
RECURSIVE scan_open(_, _, _)
\* the loop of load_active_downtimes_from_log over raw_log
scan_open(index, raw_log, date_str) ==
  IF raw_log = <<>> THEN index
  ELSE LET entry == Head(raw_log)
       IN  scan_open(
             IF entry.end_time = None /\ entry.operator # "" /\ entry.id # ""
               THEN DictSet(index, entry.operator, entry.id, date_str)
               ELSE index,
             Tail(raw_log), date_str)

\* load_active_downtimes_from_log: core clears the index first, dev_py38
\* does not
load_active_downtimes_from_log(v, index, file, date_str, rd) ==
  scan_open(IF v = "core" THEN {} ELSE index, load_log(file, rd), date_str)

\* can_start_downtime: the operators already in an active downtime
can_start_downtime(index, operators) ==
  SelectSeq(operators, LAMBDA op : DictHas(index, op))

\* is_downtime_active
is_downtime_active(index, operator) == DictHas(index, operator)

RECURSIVE zip_set(_, _, _, _)
\* for operator, event_id in zip(operators, ids): index[operator] = {...}
zip_set(index, operators, ids, date_str) ==
  IF operators = <<>> \/ ids = <<>> THEN index
  ELSE zip_set(DictSet(index, Head(operators), Head(ids), date_str),
               Tail(operators), Tail(ids), date_str)

RECURSIVE group_ids(_, _, _)
\* dev_py38 stop_downtime: id_map, date_str -> ids, as the sequence of its
\* items in insertion order
group_ids(index, operators, id_map) ==
  IF operators = <<>> THEN id_map
  ELSE LET info == DictGet(index, Head(operators))
       IN  IF info # None /\ info.id # ""
             THEN LET d == info.date_str
                      known == \E i \in 1..Len(id_map) : id_map[i].date_str = d
                      added == IF known
                                 THEN [i \in 1..Len(id_map) |->
                                         IF id_map[i].date_str = d
                                           THEN [id_map[i] EXCEPT
                                                   !.ids = Append(@, info.id)]
                                           ELSE id_map[i]]
                                 ELSE Append(id_map,
                                             [date_str |-> d, ids |-> <<info.id>>])
                  IN  group_ids(index, Tail(operators), added)
             ELSE group_ids(index, Tail(operators), id_map)

RECURSIVE py38_stop_loop(_, _, _, _, _)
\* dev_py38 stop_downtime: one log_downtime_stop per date_str of id_map
py38_stop_loop(lg, id_map, i, now, F) ==
  IF i > Len(id_map) THEN lg
  ELSE LET d == id_map[i].date_str
           r == py38_log_downtime_stop(lg[d], id_map[i].ids, now,
                                       ReadOk(F, i), WriteOk(F, i))
       IN  py38_stop_loop([lg EXCEPT ![d] = r.file], id_map, i + 1, now, F)

RECURSIVE pop_all(_, _)
\* for operator in operators: self.active_downtimes.pop(operator, None)
pop_all(index, operators) ==
  IF operators = <<>> THEN index
  ELSE pop_all(DictPop(index, Head(operators)), Tail(operators))

\* core stop_downtime: the ids collected before the logger is called
core_downtime_ids(index, operators) ==
  LET has(op) == DictGet(index, op) # None /\ DictGet(index, op).id # ""
      ops == SelectSeq(operators, has)
  IN  [i \in 1..Len(ops) |-> DictGet(index, ops[i]).id]

\* status shown by core get_daily_log ("Live", else a tick sign)
StatusLive == "Live"
StatusDone == "Done"

\* a start_time that datetime.fromisoformat() rejects
Unparseable == <<0>>

\* fromisoformat accepts the string (None and "" are not accepted)
parses(s) == Len(s) = 2

\* the loop body of get_daily_log completes for the entry: core only parses
\* a str and keeps a missing start_time as the timestamp, dev_py38 parses
\* entry.get("start_time") or ""
keeps(v, entry) ==
  IF v = "core" THEN entry.start_time = None \/ parses(entry.start_time)
  ELSE parses(entry.start_time)

\* one processed entry of get_daily_log; dev_py38 has no "status" key
processed_entry(v, entry) ==
  LET timestamp == IF entry.start_time = None THEN None
                   ELSE fromisoformat(entry.start_time)
  IN  IF v = "core"
        THEN [timestamp |-> timestamp,
              category |-> entry.category, event |-> entry.downtime,
              operator |-> entry.operator, station |-> entry.station,
              end_time |-> entry.end_time,
              duration_minutes |-> entry.duration_minutes,
              status |-> IF entry.end_time = None THEN StatusLive
                         ELSE StatusDone]
        ELSE [timestamp |-> timestamp,
              category |-> entry.category, event |-> entry.downtime,
              operator |-> entry.operator, station |-> entry.station,
              end_time |-> entry.end_time,
              duration_minutes |-> entry.duration_minutes]

RECURSIVE sort_insert(_, _)
\* stable insertion of e into s, already sorted by timestamp
sort_insert(s, e) ==
  IF s = <<>> THEN <<e>>
  ELSE IF s[Len(s)].timestamp <= e.timestamp THEN Append(s, e)
  ELSE Append(sort_insert(SubSeq(s, 1, Len(s) - 1), e), s[Len(s)])

RECURSIVE sort_by_timestamp(_, _)
\* processed.sort(key=lambda e: e["timestamp"])
sort_by_timestamp(acc, s) ==
  IF s = <<>> THEN acc
  ELSE sort_by_timestamp(sort_insert(acc, Head(s)), Tail(s))

\* processed.sort compares every element of a list of two or more: a None
\* timestamp among them raises TypeError, outside the try of the loop
sort_raises(v, raw_log) ==
  LET kept == SelectSeq(raw_log, LAMBDA e : keeps(v, e))
  IN  Len(kept) >= 2 /\ \E i \in 1..Len(kept) : kept[i].start_time = None

\* get_daily_log over the raw log of today: whether it raises, and the list
\* it returns
get_daily_log(v, raw_log) ==
  LET kept == SelectSeq(raw_log, LAMBDA e : keeps(v, e))
      processed == [i \in 1..Len(kept) |-> processed_entry(v, kept[i])]
  IN  IF sort_raises(v, raw_log) THEN [raised |-> TRUE, value |-> <<>>]
      ELSE [raised |-> FALSE, value |-> sort_by_timestamp(<<>>, processed)]

\* ------------------------------------------------------------------------
\* State
\* ------------------------------------------------------------------------
\* OperatorStationMap.  A map is the set of its <<operator, station>> items.
\* ------------------------------------------------------------------------
\* self._map[operator] = station
MapSet(m, operator, station) ==
  {p \in m : p[1] # operator} \cup {<<operator, station>>}

\* the operators a map assigns
MapKeys(m) == {p[1] : p \in m}

\* del self._map[operator]
MapDel(m, operator) == {p \in m : p[1] # operator}

\* self._map.get(operator, "Unknown")
MapGet(m, operator) ==
  IF operator \in MapKeys(m) THEN (CHOOSE p \in m : p[1] = operator)[2]
  ELSE "Unknown"

\* _get_today(): the date of the clock; a date is written <<day>>, so that
\* None is the missing one
get_today(t) == <<strftime(t)>>

\* _load(): the file's map (empty when there is no file); a failed read
\* keeps the map in memory
osm_load(map, file, ok) == IF ok THEN file ELSE map

\* _save(): writes the whole map; a failed write is printed and swallowed
osm_save(file, map, ok) == IF ok THEN map ELSE file

\* _get_last_cleared_date() that never finds a date
get_last_cleared_date_forgets(marker, ok) == None

\* _get_last_cleared_date(): None without a file or on a failed read
get_last_cleared_date(marker, ok) == IF ok THEN marker ELSE None

\* _set_last_cleared_date(date): a failed write is printed and swallowed
set_last_cleared_date(marker, date, ok) == IF ok THEN date ELSE marker

\* the storage access of one call of the map that fails, if any
OsmFaults == {"none", "map_read", "map_write", "marker_read", "marker_write"}

\* a process that is not inside a call of the map
OsmIdle == [pc |-> "idle", today |-> None, operator |-> "", after |-> FALSE]

\* no map file and no last-cleared file yet; every process constructed
OsmInit ==
  [file |-> {}, last_cleared |-> None, fresh |-> {},
   map |-> [t \in Terminals |-> {}],
   proc |-> [t \in Terminals |-> OsmIdle]]

\* ------------------------------------------------------------------------
\* OperatorMovementLogger.  Table operator_events is the sequence of its
\* rows in insertion order.
\* ------------------------------------------------------------------------
States == {"Sign In", "Sign Out"}

\* strftime("%Y-%m-%d %H:%M:%S"): date and time of day, to the second
strftime_seconds(t) == <<t \div DaySeconds, t % DaySeconds>>

\* a < b for two event_time values
EarlierTime(a, b) == a[1] < b[1] \/ (a[1] = b[1] /\ a[2] < b[2])

\* the rows "WHERE operator=%s ORDER BY event_time DESC LIMIT 1" may return:
\* the operator's rows with the greatest event_time; SQL leaves the order
\* among rows of equal event_time open
LatestRows(rows, operator) ==
  {i \in 1..Len(rows) :
     /\ rows[i].operator = operator
     /\ \A j \in 1..Len(rows) :
          rows[j].operator = operator =>
            ~EarlierTime(rows[i].event_time, rows[j].event_time)}

\* log_event(operator, station, state) at time t, the SELECT returning row
\* number `row` (0: no row)
log_event(rows, row, operator, station, state, t) ==
  IF row # 0 /\ rows[row].state = state
  THEN [rows |-> rows, value |-> FALSE]
  ELSE [rows |-> Append(rows, [operator |-> operator, station |-> station,
                               event_time |-> strftime_seconds(t),
                               state |-> state]),
        value |-> TRUE]

\* ------------------------------------------------------------------------
\* TimeSync
\* ------------------------------------------------------------------------
\* sync_time = None, local_reference = None
NoReference == [sync_time |-> None, local_reference |-> None]

\* what the time API may be ahead of or behind the local clock by
Skews == {0 - FifteenMinutes, 0, FifteenMinutes}

\* outcomes of the fetch in sync(): requests.get raising, raise_for_status
\* raising, response.json() raising, no "dateTime" key, a dateTime that
\* isoparse rejects, or a well-formed time
FetchFailures ==
  {"network error", "bad status", "not json", "no dateTime", "bad dateTime"}

Fetches(t) ==
  [kind : FetchFailures, dateTime : {0}]
    \cup [kind : {"ok"}, dateTime : {t + k : k \in Skews}]

\* sync() that forgets the reference when the fetch fails
sync_drops_reference(ref, fetch, wall) ==
  IF fetch.kind = "ok"
    THEN [raised |-> FALSE,
          ref |-> [sync_time |-> <<fetch.dateTime>>,
                   local_reference |-> <<wall>>]]
    ELSE [raised |-> FALSE, ref |-> NoReference]

\* sync() with the local clock at wall: a datetime is written <<seconds>>.
\* Every exception of the fetch is caught and printed.
sync(ref, fetch, wall) ==
  IF fetch.kind = "ok"
    THEN [raised |-> FALSE,
          ref |-> [sync_time |-> <<fetch.dateTime>>,
                   local_reference |-> <<wall>>]]
    ELSE [raised |-> FALSE, ref |-> ref]

\* get_now() with the local clock at wall
get_now(ref, wall) ==
  IF ref.sync_time = None \/ ref.local_reference = None
    THEN [raised |-> FALSE, value |-> wall]
    ELSE [raised |-> FALSE,
          value |-> ref.sync_time[1] + (wall - ref.local_reference[1])]

\* self.lock is free
lock_free_always(lock) == TRUE

\* self.lock is free (threading.Lock: `with self.lock` waits until it is)
lock_free(lock) == lock = ""

\* a thread that is not inside sync or get_now
ThreadIdle == [pc |-> "idle", new |-> NoReference, ref |-> None]

\* nothing synced yet, the lock free.  pairs collects every pair
\* (sync_time, local_reference) that one sync has computed.
ThreadsInit ==
  [lock |-> "", pairs |-> {NoReference},
   th |-> [t \in Terminals |-> ThreadIdle]]

\* ------------------------------------------------------------------------
VARIABLES
  variant,           \* which copy of the code runs on every terminal
  now,               \* the wall clock, in seconds
  logs,              \* date_str -> content of log_<date_str>.json
  nextId,            \* number of uuid4() values drawn so far
  active_downtimes,  \* terminal -> AppState.active_downtimes
  proc,              \* terminal -> the logger call it is in the middle of
  last,              \* the call that ran last
  osm,               \* the operator-station map: its files and its processes
  movement,          \* the rows of table operator_events, in insertion order
  clock,             \* the reference pair of TimeSync
  threads,           \* the lock of TimeSync and the threads using it
  server             \* date_str -> the day log the log server holds

\* the state outside the downtime log and its index
aux == <<osm, movement, clock, threads, server>>

vars == <<variant, now, logs, nextId, active_downtimes, proc, last,
          osm, movement, clock, threads, server>>

Ids == {uuid4(i) : i \in 1..MaxIds}
IdLists == SeqsUpTo(Ids, MaxOps)

\* the call that ran last: its name and whether it raised
Call(op, raised) == [op |-> op, raised |-> raised]

NoCall == Call("none", FALSE)

\* a terminal that is not inside a logger call
Idle ==
  [pc |-> "idle", mode |-> "", date_str |-> 0, data |-> <<>>, todo |-> <<>>]

Init ==
  /\ variant \in Variants
  /\ now = 0
  /\ logs = [d \in Days |-> <<>>]
  /\ nextId = 0
  /\ active_downtimes = [t \in Terminals |-> {}]
  /\ proc = [t \in Terminals |-> Idle]
  /\ last = NoCall
  /\ osm = OsmInit
  /\ movement = <<>>
  /\ clock = NoReference
  /\ threads = ThreadsInit
  /\ server = [d \in Days |-> <<>>]

\* the clock advances to a later sampled instant
Tick ==
  /\ \E t \in SampleTimes : t > now /\ now' = t
  /\ last' = NoCall
  /\ UNCHANGED <<aux, variant, logs, nextId, active_downtimes, proc>>

\* AppState.load_active_downtimes_from_log on terminal t
Load(t, F) ==
  LET date_str == strftime(now)
  IN  /\ active_downtimes' =
           [active_downtimes EXCEPT ![t] =
              load_active_downtimes_from_log(variant, @, logs[date_str],
                                             date_str, ReadOk(F, 1))]
      /\ last' = Call("load", FALSE)
      /\ UNCHANGED <<aux, variant, now, logs, nextId, proc>>

\* the process of terminal t is started again: AppState(log) followed by
\* load_active_downtimes_from_log (main.py, main_py38.py)
Restart(t, F) ==
  LET date_str == strftime(now)
  IN  /\ active_downtimes' =
           [active_downtimes EXCEPT ![t] =
              load_active_downtimes_from_log(variant, {}, logs[date_str],
                                             date_str, ReadOk(F, 1))]
      /\ last' = Call("restart", FALSE)
      /\ UNCHANGED <<aux, variant, now, logs, nextId, proc>>

\* AppState.start_downtime on terminal t.  core/app_state.py passes
\* (station, operators, reason) to a log_downtime_start that takes
\* (date_str, station, operators, downtime): TypeError before anything is
\* drawn or written
StartDowntime(t, station, reason, operators, F) ==
  LET date_str == strftime(now)
      r == py38_log_downtime_start(logs[date_str], station, operators, reason,
                                   now, nextId, F)
  IN  IF variant = "core"
        THEN /\ last' = Call("start_downtime", TRUE)
             /\ UNCHANGED <<aux, variant, now, logs, nextId, active_downtimes, proc>>
        ELSE /\ nextId + Len(operators) <= MaxIds
             /\ logs' = [logs EXCEPT ![date_str] = r.file]
             /\ nextId' = nextId + r.drawn
             /\ active_downtimes' =
                  [active_downtimes EXCEPT ![t] =
                     zip_set(@, operators, r.ids, date_str)]
             /\ last' = Call("start_downtime", FALSE)
             /\ UNCHANGED <<aux, variant, now, proc>>

\* AppState.stop_downtime on terminal t.  core/app_state.py passes
\* (downtime_ids) to a log_downtime_stop that takes (date_str, downtime_ids):
\* TypeError before the operators are popped
StopDowntime(t, operators, F) ==
  LET index == active_downtimes[t]
      id_map == group_ids(index, operators, <<>>)
  IN  IF variant = "core"
        THEN IF core_downtime_ids(index, operators) # <<>>
               THEN /\ last' = Call("stop_downtime", TRUE)
                    /\ UNCHANGED <<aux, variant, now, logs, nextId,
                                   active_downtimes, proc>>
               ELSE /\ active_downtimes' =
                         [active_downtimes EXCEPT ![t] = pop_all(@, operators)]
                    /\ last' = Call("stop_downtime", FALSE)
                    /\ UNCHANGED <<aux, variant, now, logs, nextId, proc>>
        ELSE /\ logs' = py38_stop_loop(logs, id_map, 1, now, F)
             /\ active_downtimes' =
                  [active_downtimes EXCEPT ![t] = pop_all(@, operators)]
             /\ last' = Call("stop_downtime", FALSE)
             /\ UNCHANGED <<aux, variant, now, nextId, proc>>

\* DowntimeLogger.log_downtime_start called with today's date_str
LoggerStart(station, operators, reason, F) ==
  LET date_str == strftime(now)
      r == log_downtime_start(variant, logs[date_str], station, operators,
                              reason, now, nextId, F)
  IN  /\ nextId + Len(operators) <= MaxIds
      /\ logs' = [logs EXCEPT ![date_str] = r.file]
      /\ nextId' = nextId + r.drawn
      /\ last' = Call("log_downtime_start", FALSE)
      /\ UNCHANGED <<aux, variant, now, active_downtimes, proc>>

\* DowntimeLogger.log_downtime_stop(date_str, downtime_ids)
LoggerStop(date_str, downtime_ids, F) ==
  LET r == log_downtime_stop(variant, logs[date_str], downtime_ids, now, F)
  IN  /\ logs' = [logs EXCEPT ![date_str] = r.file]
      /\ last' = Call("log_downtime_stop", FALSE)
      /\ UNCHANGED <<aux, variant, now, nextId, active_downtimes, proc>>

\* the faults that can hit a call doing n reads and n writes
FaultsOf(n) == {F \in Faults : F.kind = "none" \/ F.at <= n}

\* log_downtime_stop reads and writes once; core reads once more in save_log
StopFaults(v) ==
  {F \in Faults : \/ F.kind = "none"
                  \/ F.at = 1
                  \/ (v = "core" /\ F.kind = "read" /\ F.at = 2)}

\* a load only reads
ReadFaults == {F \in Faults : F.kind = "none" \/ (F.kind = "read" /\ F.at = 1)}

\* the terminal whose AppState is driven by arbitrary calls; every other
\* process sharing the log directory shows as direct DowntimeLogger calls
Solo == {"t1"}

\* one AppState and the DowntimeLogger driven by arbitrary calls
Next ==
  \/ Tick
  \/ \E t \in Solo, F \in ReadFaults : Load(t, F)
  \/ \E t \in Solo, F \in ReadFaults : Restart(t, F)
  \/ \E t \in Solo, st \in Stations, r \in Reasons, ops \in OpLists,
        F \in FaultsOf(1) : StartDowntime(t, st, r, ops, F)
  \/ \E t \in Solo, ops \in OpLists :
        \E F \in FaultsOf(Len(group_ids(active_downtimes[t], ops, <<>>))) :
           StopDowntime(t, ops, F)
  \/ \E st \in Stations, r \in Reasons, ops \in OpLists :
        \E F \in FaultsOf(Len(ops)) : LoggerStart(st, ops, r, F)
  \/ \E d \in Days, ids \in IdLists, F \in StopFaults(variant) :
        LoggerStop(d, ids, F)

Spec == Init /\ [][Next]_vars

\* ------------------------------------------------------------------------
\* The presentation layer: the submit handlers of the start and stop dialogs
\* ------------------------------------------------------------------------
Distinct(s) == \A i, j \in 1..Len(s) : i # j => s[i] # s[j]

\* the lists a dialog can collect: the scanner refuses an operator twice
ScannedLists == {ops \in OpLists : ops # <<>> /\ Distinct(ops)}

\* on_start_downtime.submit.  src/ui.py refuses the whole request when an
\* operator is already in downtime; src/ui/ui.py stops the operators already
\* in downtime and then starts one downtime per operator.  The event comes
\* from the selector over EVENTS.
OnStartDowntime(t, station, event, scanned_operators) ==
  LET already_in_downtime ==
        can_start_downtime(active_downtimes[t], scanned_operators)
  IN  /\ event \in DOMAIN EVENTS
      /\ IF variant = "py38"
           THEN /\ already_in_downtime = <<>>
                /\ StartDowntime(t, station, event, scanned_operators, NoFault)
           ELSE IF already_in_downtime # <<>>
                  THEN StopDowntime(t, already_in_downtime, NoFault)
                  ELSE StartDowntime(t, station, event,
                                     <<Head(scanned_operators)>>, NoFault)

\* on_stop_downtime.submit.  The dialog of src/ui.py only accepts operators
\* for which is_downtime_active holds.
OnStopDowntime(t, scanned_operators) ==
  /\ variant = "py38" =>
       \A i \in 1..Len(scanned_operators) :
          is_downtime_active(active_downtimes[t], scanned_operators[i])
  /\ StopDowntime(t, scanned_operators, NoFault)

NextUI(T) ==
  \/ Tick
  \/ \E t \in T : Restart(t, NoFault)
  \/ \E t \in T, st \in Stations, ev \in Reasons, ops \in ScannedLists :
        OnStartDowntime(t, st, ev, ops)
  \/ \E t \in T, ops \in ScannedLists : OnStopDowntime(t, ops)

\* every terminal driven through its dialogs, all sharing the log directory
NextTerminals == NextUI(Terminals)

SpecUI == Init /\ [][NextTerminals]_vars

\* a single terminal driven through its dialogs
NextSolo == NextUI(Solo)

SpecSolo == Init /\ [][NextSolo]_vars

\* ------------------------------------------------------------------------
\* Terminals are separate processes sharing the log directory without a
\* lock: between the read and the write of one logger call, another
\* terminal can read and write the same file.  A logger call is split at its
\* file accesses.
\* ------------------------------------------------------------------------
\* log_downtime_stop up to its save_log call: load_log, get_now and the loop
BeginStop(t, date_str, downtime_ids) ==
  LET file == logs[date_str]
      entries_to_update ==
        core_stop_loop(IdDictFrom(<<>>, file), downtime_ids, now, <<>>)
      r == py38_log_downtime_stop(file, downtime_ids, now, TRUE, TRUE)
  IN  /\ proc[t].pc = "idle"
      /\ proc' = [proc EXCEPT ![t] =
           IF variant = "core"
             THEN IF entries_to_update = <<>> THEN Idle
                  ELSE [pc |-> "save_log", mode |-> "update",
                        date_str |-> date_str, data |-> <<>>,
                        todo |-> entries_to_update]
             ELSE IF r.ret = <<>> THEN Idle
                  ELSE [pc |-> "write", mode |-> "", date_str |-> date_str,
                        data |-> r.file, todo |-> <<>>]]
      /\ last' = Call("log_downtime_stop", FALSE)
      /\ UNCHANGED <<aux, variant, now, logs, nextId, active_downtimes>>

\* log_downtime_start for one operator up to its save_log call
BeginStart(t, station, operator, downtime) ==
  LET date_str == strftime(now)
      entries == new_entries(station, <<operator>>, downtime,
                             IF downtime \in DOMAIN EVENTS
                               THEN EVENTS[downtime] ELSE "Unknown",
                             now, nextId)
      raises == variant = "py38" /\ downtime \notin DOMAIN EVENTS
  IN  /\ proc[t].pc = "idle"
      /\ nextId < MaxIds
      /\ proc' = [proc EXCEPT ![t] =
           IF raises THEN Idle
           ELSE IF variant = "core"
             THEN [pc |-> "save_log", mode |-> "append",
                   date_str |-> date_str, data |-> <<>>, todo |-> entries]
             ELSE [pc |-> "write", mode |-> "", date_str |-> date_str,
                   data |-> logs[date_str] \o entries, todo |-> <<>>]]
      /\ nextId' = IF raises THEN nextId ELSE nextId + 1
      /\ last' = Call("log_downtime_start", FALSE)
      /\ UNCHANGED <<aux, variant, now, logs, active_downtimes>>

\* core save_log, the read of the file and the merge of the entries
SaveLogRead(t) ==
  /\ proc[t].pc = "save_log"
  /\ proc' = [proc EXCEPT ![t] =
       [pc |-> "write", mode |-> proc[t].mode, date_str |-> proc[t].date_str,
        data |-> core_save_log(logs[proc[t].date_str], proc[t].todo,
                               proc[t].mode, TRUE, TRUE),
        todo |-> <<>>]]
  /\ last' = Call("save_log", FALSE)
  /\ UNCHANGED <<aux, variant, now, logs, nextId, active_downtimes>>

\* save_log, the write of the file
SaveLogWrite(t) ==
  /\ proc[t].pc = "write"
  /\ logs' = [logs EXCEPT ![proc[t].date_str] = proc[t].data]
  /\ proc' = [proc EXCEPT ![t] = Idle]
  /\ last' = Call("save_log", FALSE)
  /\ UNCHANGED <<aux, variant, now, nextId, active_downtimes>>

NextRace ==
  \/ Tick
  \/ \E t \in Terminals, d \in Days, ids \in IdLists : BeginStop(t, d, ids)
  \/ \E t \in Terminals, st \in Stations, op \in Operators, r \in Reasons :
        BeginStart(t, st, op, r)
  \/ \E t \in Terminals : SaveLogRead(t)
  \/ \E t \in Terminals : SaveLogWrite(t)

SpecRace == Init /\ [][NextRace]_vars

\* ------------------------------------------------------------------------
\* get_daily_log over a day log as found on disk, which may hold entries
\* the loggers did not write
\* ------------------------------------------------------------------------
\* the start_time values of an entry on disk: missing, not a date, or valid
RawStartTimes == {None, Unparseable, isoformat(0), isoformat(FifteenMinutes)}

\* a day log on disk, from the <<operator, start_time>> of its entries
RawLog(items) ==
  [i \in 1..Len(items) |->
     new_entry(uuid4(i), "Line1", items[i][1], "Lunch", "Other", items[i][2])]

RawLogs == {RawLog(items) : items \in SeqsUpTo(Operators \X RawStartTimes,
                                               MaxRawLen)}

InitDaily ==
  /\ variant \in Variants
  /\ now = 0
  /\ \E raw \in RawLogs : logs = [d \in Days |-> IF d = 0 THEN raw ELSE <<>>]
  /\ nextId = 0
  /\ active_downtimes = [t \in Terminals |-> {}]
  /\ proc = [t \in Terminals |-> Idle]
  /\ last = NoCall
  /\ osm = OsmInit
  /\ movement = <<>>
  /\ clock = NoReference
  /\ threads = ThreadsInit
  /\ server = [d \in Days |-> <<>>]

\* AppState.get_daily_log on terminal t
GetDailyLog(t) ==
  /\ last' = Call("get_daily_log",
                  get_daily_log(variant,
                                load_log(logs[strftime(now)], TRUE)).raised)
  /\ UNCHANGED <<aux, variant, now, logs, nextId, active_downtimes, proc>>

NextDaily == \E t \in Solo : GetDailyLog(t)

SpecDaily == InitDaily /\ [][NextDaily]_vars

\* ------------------------------------------------------------------------
\* The logger under a clock sampled at sub-minute and multi-hour distances
\* ------------------------------------------------------------------------
FineTimes == {0, 40, FifteenMinutes, 3 * 60 * 60}

\* the clock advances to a later instant of FineTimes
TickFine ==
  /\ \E t \in FineTimes : t > now /\ now' = t
  /\ last' = NoCall
  /\ UNCHANGED <<aux, variant, logs, nextId, active_downtimes, proc>>

NextDur ==
  \/ TickFine
  \/ \E st \in Stations, r \in Reasons, ops \in OpLists :
        LoggerStart(st, ops, r, NoFault)
  \/ \E d \in Days, ids \in IdLists : LoggerStop(d, ids, NoFault)

SpecDur == Init /\ [][NextDur]_vars

\* ------------------------------------------------------------------------
\* OperatorStationMap: whole calls
\* ------------------------------------------------------------------------
\* OperatorStationMap.set(operator, station) in process t
OsmSet(t, operator, station, F) ==
  LET loaded == osm_load(osm.map[t], osm.file, F # "map_read")
      map == MapSet(loaded, operator, station)
  IN  /\ osm' = [osm EXCEPT !.map[t] = map,
                            !.file = osm_save(@, map, F # "map_write")]
      /\ last' = Call("set", FALSE)
      /\ UNCHANGED <<threads, server,
                     movement, clock, variant, now, logs, nextId,
                     active_downtimes, proc>>

\* OperatorStationMap.daily_clear_if_needed() in process t
DailyClearIfNeeded(t, F) ==
  LET today == get_today(now)
      last_cleared == get_last_cleared_date(osm.last_cleared,
                                            F # "marker_read")
  IN  /\ IF last_cleared # today
         THEN osm' = [osm EXCEPT
                !.map[t] = {},
                !.file = osm_save(@, {}, F # "map_write"),
                !.last_cleared =
                    set_last_cleared_date(@, today, F # "marker_write")]
         ELSE UNCHANGED osm
      /\ last' = Call("daily_clear_if_needed", FALSE)
      /\ UNCHANGED <<threads, server,
                     movement, clock, variant, now, logs, nextId,
                     active_downtimes, proc>>

NextMap ==
  \/ Tick
  \/ \E t \in Terminals, o \in Operators, st \in Stations :
        \E F \in {"none", "map_read", "map_write"} : OsmSet(t, o, st, F)
  \/ \E t \in Terminals, F \in OsmFaults \ {"map_read"} :
        DailyClearIfNeeded(t, F)

SpecMap == Init /\ [][NextMap]_vars

\* ------------------------------------------------------------------------
\* OperatorStationMap: the calls of several processes, split at the file
\* accesses (the FileLock lines are commented out, nothing is held between
\* two accesses).  osm.fresh records <<operator, day>> for every set that
\* ran wholly after the last-cleared file held that day.
\* ------------------------------------------------------------------------
\* daily_clear_if_needed: today and the last-cleared date are read
ClearBegin(t) ==
  /\ osm.proc[t].pc = "idle"
  /\ LET today == get_today(now)
     IN  IF get_last_cleared_date(osm.last_cleared, TRUE) # today
         THEN osm' = [osm EXCEPT !.proc[t] =
                        [OsmIdle EXCEPT !.pc = "clear", !.today = today]]
         ELSE UNCHANGED osm
  /\ last' = Call("daily_clear_if_needed", FALSE)
  /\ UNCHANGED <<threads, server, movement, clock, variant, now, logs, nextId,
                 active_downtimes, proc>>

\* daily_clear_if_needed: clear() empties the map and saves it
ClearSave(t) ==
  /\ osm.proc[t].pc = "clear"
  /\ osm' = [osm EXCEPT !.map[t] = {},
                        !.file = osm_save(@, {}, TRUE),
                        !.proc[t].pc = "mark"]
  /\ last' = Call("clear", FALSE)
  /\ UNCHANGED <<threads, server, movement, clock, variant, now, logs, nextId,
                 active_downtimes, proc>>

\* daily_clear_if_needed: _set_last_cleared_date(today)
ClearMark(t) ==
  /\ osm.proc[t].pc = "mark"
  /\ osm' = [osm EXCEPT
       !.last_cleared = set_last_cleared_date(@, osm.proc[t].today, TRUE),
       !.proc[t] = OsmIdle]
  /\ last' = Call("_set_last_cleared_date", FALSE)
  /\ UNCHANGED <<threads, server, movement, clock, variant, now, logs, nextId,
                 active_downtimes, proc>>

\* set: _load() and the assignment in memory
SetLoad(t, operator, station) ==
  /\ osm.proc[t].pc = "idle"
  /\ osm' = [osm EXCEPT
       !.map[t] = MapSet(osm_load(@, osm.file, TRUE), operator, station),
       !.proc[t] = [pc |-> "save", today |-> get_today(now),
                    operator |-> operator,
                    after |-> osm.last_cleared = get_today(now)]]
  /\ last' = Call("_load", FALSE)
  /\ UNCHANGED <<threads, server, movement, clock, variant, now, logs, nextId,
                 active_downtimes, proc>>

\* set: _save()
SetSave(t) ==
  /\ osm.proc[t].pc = "save"
  /\ osm' = [osm EXCEPT
       !.file = osm_save(@, osm.map[t], TRUE),
       !.fresh = IF osm.proc[t].after
                 THEN @ \cup {<<osm.proc[t].operator, osm.proc[t].today>>}
                 ELSE @,
       !.proc[t] = OsmIdle]
  /\ last' = Call("set", FALSE)
  /\ UNCHANGED <<threads, server, movement, clock, variant, now, logs, nextId,
                 active_downtimes, proc>>

NextMapRace ==
  \/ Tick
  \/ \E t \in Terminals : ClearBegin(t)
  \/ \E t \in Terminals : ClearSave(t)
  \/ \E t \in Terminals : ClearMark(t)
  \/ \E t \in Terminals, o \in Operators, st \in Stations : SetLoad(t, o, st)
  \/ \E t \in Terminals : SetSave(t)

SpecMapRace == Init /\ [][NextMapRace]_vars

\* ------------------------------------------------------------------------
\* OperatorMovementLogger
\* ------------------------------------------------------------------------
\* OperatorMovementLogger.log_event(operator, station, state)
LogEvent(operator, station, state) ==
  /\ Len(movement) < MaxEvents
  /\ \E row \in IF LatestRows(movement, operator) = {} THEN {0}
                ELSE LatestRows(movement, operator) :
       LET r == log_event(movement, row, operator, station, state, now)
       IN  /\ movement' = r.rows
           /\ last' = [op |-> "log_event", raised |-> FALSE,
                       returned |-> r.value]
  /\ UNCHANGED <<threads, server,
                 osm, clock, variant, now, logs, nextId, active_downtimes,
                 proc>>

NextMove ==
  \/ Tick
  \/ \E o \in Operators, st \in Stations, state \in States :
        LogEvent(o, st, state)

SpecMove == Init /\ [][NextMove]_vars

\* ------------------------------------------------------------------------
\* AppState.start_downtime split at its two clock reads: the one that gives
\* date_str, and the one log_downtime_start makes for start_time
\* ------------------------------------------------------------------------
\* start_downtime: now = self.logger.get_now(); date_str = now.strftime(...)
StartRead(t, station, reason, operators) ==
  /\ proc[t].pc = "idle"
  /\ proc' = [proc EXCEPT ![t] =
       [pc |-> "log_downtime_start", mode |-> "", date_str |-> strftime(now),
        data |-> <<[station |-> station, reason |-> reason,
                    operators |-> operators]>>,
        todo |-> <<>>]]
  /\ last' = Call("get_now", FALSE)
  /\ UNCHANGED <<aux, variant, now, logs, nextId, active_downtimes>>

\* start_downtime: the log_downtime_start call and the index update
StartLog(t) ==
  LET date_str == proc[t].date_str
      args == proc[t].data[1]
      r == py38_log_downtime_start(logs[date_str], args.station,
                                   args.operators, args.reason, now, nextId,
                                   NoFault)
  IN  /\ proc[t].pc = "log_downtime_start"
      /\ proc' = [proc EXCEPT ![t] = Idle]
      /\ IF variant = "core"
           THEN /\ last' = Call("start_downtime", TRUE)
                /\ UNCHANGED <<aux, variant, now, logs, nextId,
                               active_downtimes>>
           ELSE /\ nextId + Len(args.operators) <= MaxIds
                /\ logs' = [logs EXCEPT ![date_str] = r.file]
                /\ nextId' = nextId + r.drawn
                /\ active_downtimes' =
                     [active_downtimes EXCEPT ![t] =
                        zip_set(@, args.operators, r.ids, date_str)]
                /\ last' = Call("start_downtime", FALSE)
                /\ UNCHANGED <<aux, variant, now>>

NextMidnight ==
  \/ Tick
  \/ \E t \in Terminals, st \in Stations, r \in Reasons, ops \in OpLists :
        StartRead(t, st, r, ops)
  \/ \E t \in Terminals : StartLog(t)

SpecMidnight == Init /\ [][NextMidnight]_vars

\* ------------------------------------------------------------------------
\* TimeSync
\* ------------------------------------------------------------------------
\* TimeSync.sync(), from the constructor or the resync thread
Sync(fetch) ==
  LET r == sync(clock, fetch, now)
  IN  /\ clock' = r.ref
      /\ last' = [op |-> "sync", raised |-> r.raised, fetch |-> fetch.kind]
      /\ UNCHANGED <<threads, server,
                     osm, movement, variant, now, logs, nextId,
                     active_downtimes, proc>>

\* TimeSync.get_now()
GetNow ==
  LET r == get_now(clock, now)
  IN  /\ last' = [op |-> "get_now", raised |-> r.raised, returned |-> r.value]
      /\ UNCHANGED <<aux, variant, now, logs, nextId, active_downtimes, proc>>

NextClock ==
  \/ Tick
  \/ \E fetch \in Fetches(now) : Sync(fetch)
  \/ GetNow

SpecClock == Init /\ [][NextClock]_vars

\* ------------------------------------------------------------------------
\* OperatorStationMap: the accessors, whole calls of several processes
\* ------------------------------------------------------------------------
\* OperatorStationMap.remove(operator) in process t
OsmRemove(t, operator, F) ==
  LET loaded == osm_load(osm.map[t], osm.file, F # "map_read")
  IN  /\ IF operator \in MapKeys(loaded)
           THEN osm' = [osm EXCEPT
                  !.map[t] = MapDel(loaded, operator),
                  !.file = osm_save(@, MapDel(loaded, operator),
                                    F # "map_write")]
           ELSE osm' = [osm EXCEPT !.map[t] = loaded]
      /\ last' = Call("remove", FALSE)
      /\ UNCHANGED <<threads, server,
                     movement, clock, variant, now, logs, nextId,
                     active_downtimes, proc>>

\* OperatorStationMap.get(operator) in process t
OsmGet(t, operator, F) ==
  LET loaded == osm_load(osm.map[t], osm.file, F # "map_read")
  IN  /\ osm' = [osm EXCEPT !.map[t] = loaded]
      /\ last' = [op |-> "get", raised |-> FALSE,
                  returned |-> MapGet(loaded, operator)]
      /\ UNCHANGED <<threads, server,
                     movement, clock, variant, now, logs, nextId,
                     active_downtimes, proc>>

\* OperatorStationMap.as_dict() in process t
OsmAsDict(t, F) ==
  LET loaded == osm_load(osm.map[t], osm.file, F # "map_read")
  IN  /\ osm' = [osm EXCEPT !.map[t] = loaded]
      /\ last' = [op |-> "as_dict", raised |-> FALSE, returned |-> loaded]
      /\ UNCHANGED <<threads, server,
                     movement, clock, variant, now, logs, nextId,
                     active_downtimes, proc>>

MapReadFaults == {"none", "map_read"}

NextMapAccess ==
  \/ Tick
  \/ \E t \in Terminals, o \in Operators, st \in Stations :
        \E F \in {"none", "map_read", "map_write"} : OsmSet(t, o, st, F)
  \/ \E t \in Terminals, o \in Operators :
        \E F \in {"none", "map_read", "map_write"} : OsmRemove(t, o, F)
  \/ \E t \in Terminals, o \in Operators, F \in MapReadFaults :
        OsmGet(t, o, F)
  \/ \E t \in Terminals, F \in MapReadFaults : OsmAsDict(t, F)

SpecMapAccess == Init /\ [][NextMapAccess]_vars

\* ------------------------------------------------------------------------
\* TimeSync: sync in the resync thread and get_now in another thread, one
\* step per access of self.lock, self.sync_time and self.local_reference
\* ------------------------------------------------------------------------
Resync == "t1"     \* the thread of _resync_loop
Caller == "t2"     \* a thread calling get_now

\* sync: the fetch; new_sync_time and new_local_reference are computed
SyncFetch(fetch) ==
  /\ threads.th[Resync].pc = "idle"
  /\ Cardinality(threads.pairs) <= MaxSyncs
  /\ LET r == sync(clock, fetch, now)
     IN  threads' =
           IF fetch.kind = "ok"
             THEN [threads EXCEPT !.pairs = @ \cup {r.ref},
                                  !.th[Resync].pc = "lock",
                                  !.th[Resync].new = r.ref]
             ELSE threads
  /\ last' = [op |-> "sync", raised |-> FALSE, fetch |-> fetch.kind]
  /\ UNCHANGED <<osm, movement, clock, server, variant, now, logs, nextId,
                 active_downtimes, proc>>

\* sync: with self.lock
SyncLock ==
  /\ threads.th[Resync].pc = "lock"
  /\ lock_free(threads.lock)
  /\ threads' = [threads EXCEPT !.lock = Resync,
                                !.th[Resync].pc = "sync_time"]
  /\ last' = NoCall
  /\ UNCHANGED <<osm, movement, clock, server, variant, now, logs, nextId,
                 active_downtimes, proc>>

\* sync: self.sync_time = new_sync_time
SyncWriteTime ==
  /\ threads.th[Resync].pc = "sync_time"
  /\ clock' = [clock EXCEPT !.sync_time = threads.th[Resync].new.sync_time]
  /\ threads' = [threads EXCEPT !.th[Resync].pc = "local_reference"]
  /\ last' = NoCall
  /\ UNCHANGED <<osm, movement, server, variant, now, logs, nextId,
                 active_downtimes, proc>>

\* sync: self.local_reference = new_local_reference, and the lock released
SyncWriteReference ==
  /\ threads.th[Resync].pc = "local_reference"
  /\ clock' = [clock EXCEPT
       !.local_reference = threads.th[Resync].new.local_reference]
  /\ threads' = [threads EXCEPT !.lock = "", !.th[Resync] = ThreadIdle]
  /\ last' = NoCall
  /\ UNCHANGED <<osm, movement, server, variant, now, logs, nextId,
                 active_downtimes, proc>>

\* get_now: with self.lock
GetLock ==
  /\ threads.th[Caller].pc = "idle"
  /\ lock_free(threads.lock)
  /\ threads' = [threads EXCEPT !.lock = Caller, !.th[Caller].pc = "check"]
  /\ last' = NoCall
  /\ UNCHANGED <<osm, movement, clock, server, variant, now, logs, nextId,
                 active_downtimes, proc>>

\* get_now: if self.sync_time is None or self.local_reference is None
GetCheck ==
  /\ threads.th[Caller].pc = "check"
  /\ IF clock.sync_time = None \/ clock.local_reference = None
       THEN /\ threads' = [threads EXCEPT !.lock = "",
                                          !.th[Caller] = ThreadIdle]
            /\ last' = [op |-> "get_now", raised |-> FALSE, returned |-> now,
                        pair |-> NoReference]
       ELSE /\ threads' = [threads EXCEPT !.th[Caller].pc = "delta"]
            /\ last' = NoCall
  /\ UNCHANGED <<osm, movement, clock, server, variant, now, logs, nextId,
                 active_downtimes, proc>>

\* get_now: delta = datetime.now() - self.local_reference
GetDelta ==
  /\ threads.th[Caller].pc = "delta"
  /\ threads' = [threads EXCEPT !.th[Caller].pc = "return",
                                !.th[Caller].ref = clock.local_reference]
  /\ last' = NoCall
  /\ UNCHANGED <<osm, movement, clock, server, variant, now, logs, nextId,
                 active_downtimes, proc>>

\* get_now: return self.sync_time + delta, and the lock released
GetReturn ==
  LET pair == [sync_time |-> clock.sync_time,
               local_reference |-> threads.th[Caller].ref]
  IN  /\ threads.th[Caller].pc = "return"
      /\ threads' = [threads EXCEPT !.lock = "", !.th[Caller] = ThreadIdle]
      /\ last' = [op |-> "get_now", raised |-> FALSE,
                  returned |-> get_now(pair, now).value, pair |-> pair]
      /\ UNCHANGED <<osm, movement, clock, server, variant, now, logs, nextId,
                     active_downtimes, proc>>

NextThreads ==
  \/ Tick
  \/ \E fetch \in Fetches(now) : SyncFetch(fetch)
  \/ SyncLock
  \/ SyncWriteTime
  \/ SyncWriteReference
  \/ GetLock
  \/ GetCheck
  \/ GetDelta
  \/ GetReturn

SpecThreads == Init /\ [][NextThreads]_vars

\* ------------------------------------------------------------------------
\* core save_log in update mode over a day log as found on disk, which may
\* hold entries without an "id" key and entries sharing an id
\* ------------------------------------------------------------------------
\* an entry on disk that has no "id" key
NoIdEntry(operator) ==
  [station |-> "Line1", operator |-> operator, downtime |-> "Lunch",
   category |-> "Other", start_time |-> isoformat(0), end_time |-> None,
   duration_minutes |-> None]

StoredEntries ==
  {new_entry(id, "Line1", o, "Lunch", "Other", isoformat(0)) :
     id \in Ids, o \in Operators}
    \cup {NoIdEntry(o) : o \in Operators}

\* the entries handed to save_log(mode="update"): closed events
UpdateEntries ==
  {closed_entry(new_entry(id, "Line1", "Alice", "Lunch", "Other",
                          isoformat(0)), FifteenMinutes) : id \in Ids}

InitUpdate ==
  /\ variant = "core"
  /\ now = 0
  /\ \E raw \in SeqsUpTo(StoredEntries, MaxRawLen) :
       logs = [d \in Days |-> IF d = 0 THEN raw ELSE <<>>]
  /\ nextId = 0
  /\ active_downtimes = [t \in Terminals |-> {}]
  /\ proc = [t \in Terminals |-> Idle]
  /\ last = NoCall
  /\ osm = OsmInit
  /\ movement = <<>>
  /\ clock = NoReference
  /\ threads = ThreadsInit
  /\ server = [d \in Days |-> <<>>]

\* DowntimeLogger.save_log(log_entries, date_str, mode="update"), file mode
SaveLogUpdate(date_str, log_entries) ==
  /\ logs' = [logs EXCEPT ![date_str] =
                core_save_log(@, log_entries, "update", TRUE, TRUE)]
  /\ last' = Call("save_log", FALSE)
  /\ UNCHANGED <<aux, variant, now, nextId, active_downtimes, proc>>

NextUpdate ==
  \E d \in Days, entries \in SeqsUpTo(UpdateEntries, MaxOps) :
     SaveLogUpdate(d, entries)

SpecUpdate == InitUpdate /\ [][NextUpdate]_vars

\* ------------------------------------------------------------------------
\* One terminal alone on the store: only its AppState calls touch the logs
\* ------------------------------------------------------------------------
NextIndex ==
  \/ Tick
  \/ \E t \in Solo, F \in ReadFaults : Load(t, F)
  \/ \E t \in Solo, st \in Stations, r \in Reasons, ops \in OpLists,
        F \in FaultsOf(1) : StartDowntime(t, st, r, ops, F)
  \/ \E t \in Solo, ops \in OpLists :
        \E F \in FaultsOf(Len(group_ids(active_downtimes[t], ops, <<>>))) :
           StopDowntime(t, ops, F)

SpecIndex == Init /\ [][NextIndex]_vars

\* ------------------------------------------------------------------------
\* The logger on a TimeSync clock: DowntimeLogger.get_now returns
\* time_sync.get_now(), and the reference is replaced by resyncs
\* ------------------------------------------------------------------------
\* log_downtime_start called with the date of the synchronized clock
LoggerStartSynced(station, operators, reason) ==
  LET t == get_now(clock, now).value
      date_str == strftime(t)
      r == log_downtime_start(variant, logs[date_str], station, operators,
                              reason, t, nextId, NoFault)
  IN  /\ date_str \in Days
      /\ nextId + Len(operators) <= MaxIds
      /\ logs' = [logs EXCEPT ![date_str] = r.file]
      /\ nextId' = nextId + r.drawn
      /\ last' = Call("log_downtime_start", FALSE)
      /\ UNCHANGED <<aux, variant, now, active_downtimes, proc>>

\* log_downtime_stop(date_str, downtime_ids) on the synchronized clock
LoggerStopSynced(date_str, downtime_ids) ==
  LET t == get_now(clock, now).value
      r == log_downtime_stop(variant, logs[date_str], downtime_ids, t,
                             NoFault)
  IN  /\ logs' = [logs EXCEPT ![date_str] = r.file]
      /\ last' = Call("log_downtime_stop", FALSE)
      /\ UNCHANGED <<aux, variant, now, nextId, active_downtimes, proc>>

NextSynced ==
  \/ Tick
  \/ \E fetch \in Fetches(now) : Sync(fetch)
  \/ \E st \in Stations, r \in Reasons \cap DOMAIN EVENTS, o \in Operators :
        LoggerStartSynced(st, <<o>>, r)
  \/ \E d \in Days, ids \in IdLists : LoggerStopSynced(d, ids)

SpecSynced == Init /\ [][NextSynced]_vars

\* ------------------------------------------------------------------------
\* core DowntimeLogger with server_url set.  up: the server answers the
\* request with success.
\* ------------------------------------------------------------------------
InitServer == Init /\ variant = "core"

\* log_downtime_start(today, station, operators, reason) in server mode
ServerStart(station, operators, downtime, up) ==
  LET date_str == strftime(now)
      category == IF downtime \in DOMAIN EVENTS THEN EVENTS[downtime]
                  ELSE "Unknown"
      entries == new_entries(station, operators, downtime, category, now,
                             nextId)
  IN  /\ nextId + Len(operators) <= MaxIds
      /\ server' = [server EXCEPT ![date_str] =
                      core_save_log_server(server[date_str], entries, up)]
      /\ nextId' = nextId + Len(operators)
      /\ last' = Call("log_downtime_start", FALSE)
      /\ UNCHANGED <<osm, movement, clock, threads, variant, now, logs,
                     active_downtimes, proc>>

\* load_log(date_str) in server mode
ServerLoad(date_str, up, F) ==
  /\ last' = [op |-> "load_log", raised |-> FALSE, date_str |-> date_str,
              returned |-> core_load_log_server(server[date_str],
                                                logs[date_str], up,
                                                ReadOk(F, 1))]
  /\ UNCHANGED <<aux, variant, now, logs, nextId, active_downtimes, proc>>

NextServer ==
  \/ Tick
  \/ \E st \in Stations, r \in Reasons, ops \in OpLists, up \in BOOLEAN :
        ServerStart(st, ops, r, up)
  \/ \E d \in Days, up \in BOOLEAN, F \in ReadFaults : ServerLoad(d, up, F)

SpecServer == InitServer /\ [][NextServer]_vars

TypeOK ==
  /\ variant \in Variants
  /\ now \in SampleTimes
  /\ nextId \in 0..MaxIds
  /\ \A t \in Terminals : IsFiniteSet(active_downtimes[t])

\* ------------------------------------------------------------------------
\* Properties
\* ------------------------------------------------------------------------
\* positions of the open events of operator op in a day log
OpenOf(file, op) ==
  {i \in 1..Len(file) : file[i].operator = op /\ file[i].end_time = None}

\* ids of the open events of a day log
OpenIds(file) ==
  {file[i].id : i \in {j \in 1..Len(file) : file[j].end_time = None}}

IdsOf(file) == {file[i].id : i \in 1..Len(file)}

OpenOperators(file) == {op \in Operators : OpenOf(file, op) # {}}

\* C3: a call of load_active_downtimes_from_log whose read succeeds leaves,
\* whatever the index held before, exactly one item per operator with an
\* open event in today's log (N items for N open events when no operator
\* has two) and no item for an operator whose event is no longer open.
C3_LoadReconciles ==
  [][\A t \in Solo :
       Load(t, NoFault) =>
         LET file == logs[strftime(now)]
             index == active_downtimes'[t]
         IN  /\ {it.operator : it \in index} = OpenOperators(file)
             /\ (\A op \in Operators : Cardinality(OpenOf(file, op)) <= 1)
                   => Cardinality(index) = Cardinality(OpenIds(file))]_vars

\* C5: log_downtime_stop on a readable and writable day log returns exactly
\* the requested ids that are open in it, each once, and closes exactly
\* those; requested ids that are closed or unknown are skipped and every
\* other entry, closed ones included, is stored back unchanged.  Whether or
\* not a file access fails, a closed or unknown id is never returned and no
\* stored closed event gets another end_time or duration_minutes.
C5_StopClosesExactlyOpen ==
  \A d \in Days, ids \in IdLists :
    LET pre == logs[d]
        r == log_downtime_stop(variant, pre, ids, now, NoFault)
        wanted == Range(ids) \cap OpenIds(pre)
    IN  /\ \A F \in StopFaults(variant) :
             LET rf == log_downtime_stop(variant, pre, ids, now, F)
             IN  /\ Range(rf.ret) \subseteq wanted
                 /\ \A i \in 1..Len(pre), j \in 1..Len(rf.file) :
                      (pre[i].end_time # None /\ rf.file[j].id = pre[i].id)
                        => rf.file[j] = pre[i]
        /\ Range(r.ret) = wanted
        /\ Len(r.ret) = Cardinality(wanted)
        /\ Len(r.file) = Len(pre)
        /\ \A i \in 1..Len(pre) :
             IF pre[i].id \in wanted
               THEN /\ r.file[i].end_time = isoformat(now)
                    /\ r.file[i].duration_minutes =
                         duration_minutes_of(fromisoformat(pre[i].start_time),
                                             now)
                    /\ [r.file[i] EXCEPT !.end_time = None,
                                         !.duration_minutes = None] = pre[i]
               ELSE r.file[i] = pre[i]

\* C5 witness: a stop was logged and some day log holds a closed and an open
\* event, so that a request naming both closes only the open one
C5_Witness ==
  /\ last.op = "log_downtime_stop"
  /\ ~last.raised
  /\ \E d \in Days, ids \in IdLists :
       /\ Len(ids) = 2
       /\ ids[1] \in IdsOf(logs[d]) \ OpenIds(logs[d])
       /\ ids[2] \in OpenIds(logs[d])
       /\ log_downtime_stop(variant, logs[d], ids, now, NoFault).ret
            = <<ids[2]>>

\* C6: in every stored event end_time is None exactly when duration_minutes
\* is None.
C6_EndIffDuration ==
  \A d \in Days : \A i \in 1..Len(logs[d]) :
    (logs[d][i].end_time = None) <=> (logs[d][i].duration_minutes = None)

\* C6 witness: the logs hold an open event and a closed one
C6_Witness ==
  /\ \E d \in Days : \E i \in 1..Len(logs[d]) : logs[d][i].end_time = None
  /\ \E d \in Days : \E i \in 1..Len(logs[d]) :
       /\ logs[d][i].end_time # None
       /\ logs[d][i].duration_minutes # None

\* C8: a log_downtime_start call, also one whose read of the day log fails,
\* leaves every entry that was stored before it in the day log.
C8_AppendKeepsEntries ==
  [][last'.op = "log_downtime_start" =>
       \A d \in Days : \A i \in 1..Len(logs[d]) :
         \E j \in 1..Len(logs'[d]) : logs'[d][j] = logs[d][i]]_vars

\* category log_downtime_start stores for a reason
CategoryOf(v, reason) ==
  IF reason \in DOMAIN EVENTS THEN EVENTS[reason] ELSE "Unknown"

\* C9: log_downtime_start with a reason the backend accepts, on a readable
\* and writable day log, returns one id per listed operator in the order
\* given; the i-th id is that of a stored open event of the i-th operator
\* with the category mapped from the reason; the ids are pairwise distinct
\* and distinct from every id already in the log.
C9_StartReturnsIds ==
  \A st \in Stations, reason \in Reasons, operators \in OpLists :
    (/\ nextId + Len(operators) <= MaxIds
     /\ (variant = "py38" => reason \in DOMAIN EVENTS))
    =>
    LET pre == logs[strftime(now)]
        r == log_downtime_start(variant, pre, st, operators, reason, now,
                                nextId, NoFault)
    IN  /\ Len(r.ids) = Len(operators)
        /\ \A i \in 1..Len(operators) :
             \E j \in 1..Len(r.file) :
               /\ r.file[j].id = r.ids[i]
               /\ r.file[j].operator = operators[i]
               /\ r.file[j].station = st
               /\ r.file[j].downtime = reason
               /\ r.file[j].category = CategoryOf(variant, reason)
               /\ r.file[j].start_time = isoformat(now)
               /\ r.file[j].end_time = None
               /\ r.file[j].duration_minutes = None
        /\ \A i, k \in 1..Len(r.ids) : i # k => r.ids[i] # r.ids[k]
        /\ Range(r.ids) \cap UNION {IdsOf(logs[d]) : d \in Days} = {}
        /\ IsPrefix(pre, r.file)
        /\ Len(r.file) = Len(pre) + Len(operators)

\* C9 witness: a log_downtime_start call returned and the day log holds two
\* events with distinct ids, the later of them started in that call
C9_Witness ==
  /\ last.op = "log_downtime_start"
  /\ ~last.raised
  /\ \E d \in Days :
       /\ Len(logs[d]) >= 2
       /\ logs[d][Len(logs[d])].start_time = isoformat(now)
       /\ logs[d][Len(logs[d])].id # logs[d][1].id

\* the entries of get_daily_log that belong to operator op
DailyOf(v, file, op) ==
  SelectSeq(get_daily_log(v, file).value, LAMBDA e : e.operator = op)

\* C10: in the core copy, start_downtime(station, reason, [op]) for an
\* operator with no event today makes get_daily_log show exactly one entry
\* for that operator, with status live and the category mapped from the reason; a
\* stop_downtime([op]) 15 minutes after the start makes that entry done with
\* a duration of 15.0 minutes.
C10_StartThenStopShown ==
  [][\A t \in Solo, op \in Operators :
       LET today == strftime(now)
           shown == DailyOf("core", logs'[today], op)
       IN  /\ \A st \in Stations, r \in Reasons \cap DOMAIN EVENTS :
                (/\ variant = "core"
                 /\ StartDowntime(t, st, r, <<op>>, NoFault)
                 /\ DailyOf("core", logs[today], op) = <<>>)
                => /\ Len(shown) = 1
                   /\ shown[1].status = StatusLive
                   /\ shown[1].category = EVENTS[r]
           /\ (/\ variant = "core"
               /\ StopDowntime(t, <<op>>, NoFault)
               /\ Len(DailyOf("core", logs[today], op)) = 1
               /\ DailyOf("core", logs[today], op)[1].status = StatusLive
               /\ DailyOf("core", logs[today], op)[1].timestamp
                    = now - FifteenMinutes
               /\ DictHas(active_downtimes[t], op))
              => /\ Len(shown) = 1
                 /\ shown[1].status = StatusDone
                 /\ shown[1].duration_minutes = <<15, 0>>]_vars

\* C2: with every terminal checking can_start_downtime in its own AppState
\* before start_downtime, no day log ever holds two open events of one
\* operator.
C2_NoDoubleOpen ==
  \A d \in Days, op \in Operators : Cardinality(OpenOf(logs[d], op)) <= 1

\* C4: when every write succeeded, a fresh AppState followed by
\* load_active_downtimes_from_log holds the index the terminal held before
\* the restart, also for an event started on an earlier calendar day.
C4_RestartRecoversIndex ==
  [][\A t \in Solo :
       Restart(t, NoFault) => active_downtimes'[t] = active_downtimes[t]]_vars

\* C7: once an event is stored with an end_time, no step of any terminal,
\* in any interleaving of the terminals' file accesses, changes any of its
\* fields.
C7_ClosedImmutable ==
  [][\A d \in Days : \A i \in 1..Len(logs[d]) :
       logs[d][i].end_time # None =>
         \A j \in 1..Len(logs'[d]) :
           logs'[d][j].id = logs[d][i].id => logs'[d][j] = logs[d][i]]_vars

\* C11: start_downtime for several distinct idle operators gives each of
\* them an index entry with an id of its own, the id of an open event stored
\* for that operator; stop_downtime(S) leaves the index entry and the stored
\* event of every operator outside S unchanged.
C11_OperatorsIndependent ==
  [][\A t \in Solo :
       LET index == active_downtimes[t]
           today == strftime(now)
       IN  /\ \A st \in Stations, r \in Reasons \cap DOMAIN EVENTS,
                 ops \in OpLists :
                (/\ StartDowntime(t, st, r, ops, NoFault)
                 /\ Len(ops) >= 2
                 /\ Distinct(ops)
                 /\ can_start_downtime(index, ops) = <<>>)
                => /\ \A i \in 1..Len(ops) :
                        /\ DictHas(active_downtimes'[t], ops[i])
                        /\ \E j \in 1..Len(logs'[today]) :
                             /\ logs'[today][j].id
                                  = DictGet(active_downtimes'[t], ops[i]).id
                             /\ logs'[today][j].operator = ops[i]
                             /\ logs'[today][j].end_time = None
                   /\ \A i, k \in 1..Len(ops) :
                        i # k => DictGet(active_downtimes'[t], ops[i]).id
                                   # DictGet(active_downtimes'[t], ops[k]).id
           /\ \A S \in OpLists :
                StopDowntime(t, S, NoFault) =>
                  \A op \in Operators \ Range(S) :
                    /\ {it \in active_downtimes'[t] : it.operator = op}
                         = {it \in index : it.operator = op}
                    /\ DictHas(index, op) =>
                         \A d \in Days : \A i \in 1..Len(logs[d]) :
                           logs[d][i].id = DictGet(index, op).id =>
                             \E j \in 1..Len(logs'[d]) :
                               logs'[d][j] = logs[d][i]]_vars

\* C12: for a day log holding entries with a missing or unparseable
\* start_time, get_daily_log raises nothing and returns exactly the
\* well-formed entries, sorted by start_time ascending.
C12_CorruptEntriesSkipped ==
  LET raw == logs[strftime(now)]
      r == get_daily_log(variant, raw)
      good == SelectSeq(raw, LAMBDA e : parses(e.start_time))
  IN  last.op = "get_daily_log" =>
        /\ ~last.raised
        /\ Len(r.value) = Len(good)
        /\ \A i \in 1..Len(good) :
             \E k \in 1..Len(r.value) :
               /\ r.value[k].operator = good[i].operator
               /\ r.value[k].timestamp = fromisoformat(good[i].start_time)
        /\ \A i, k \in 1..Len(r.value) :
             i < k => r.value[i].timestamp <= r.value[k].timestamp

\* seconds between the stored start_time and end_time of an entry
SpanSeconds(entry) ==
  fromisoformat(entry.end_time) - fromisoformat(entry.start_time)

\* C13: for every closed event in the log, duration_minutes is the span
\* between its stored start_time and end_time in minutes, rounded to two
\* decimals: the stored hundredths of a minute h satisfy |h - s*100/60| <= 1/2
\* for a span of s seconds (no whole number of seconds falls half-way).
C13_DurationArithmetic ==
  \A d \in Days : \A i \in 1..Len(logs[d]) :
    logs[d][i].end_time # None =>
      LET dm == logs[d][i].duration_minutes
          h == 100 * dm[1] + dm[2]
      IN  /\ dm[1] >= 0
          /\ dm[2] \in 0..99
          /\ 6 * h - 10 * SpanSeconds(logs[d][i]) \in -3..3

\* C13 witness: the log holds a closed event of less than a minute and one
\* of more than two hours
C13_Witness ==
  /\ \E d \in Days : \E i \in 1..Len(logs[d]) :
       /\ logs[d][i].end_time # None
       /\ SpanSeconds(logs[d][i]) \in 1..59
  /\ \E d \in Days : \E i \in 1..Len(logs[d]) :
       /\ logs[d][i].end_time # None
       /\ SpanSeconds(logs[d][i]) >= 2 * 60 * 60

\* C14: a daily_clear_if_needed whose file accesses succeed empties the map
\* and sets the last-cleared date to today when that date is not today
\* (yesterday's, or none yet); when it is today the call leaves the stored
\* map, with whatever was set since the clear, and the date as they are.
C14_DailyClear ==
  [][\A t \in Terminals :
       DailyClearIfNeeded(t, "none") =>
         IF osm.last_cleared # get_today(now)
         THEN /\ osm'.file = {}
              /\ osm'.map[t] = {}
              /\ osm'.last_cleared = get_today(now)
         ELSE /\ osm'.file = osm.file
              /\ osm'.last_cleared = osm.last_cleared]_vars

\* C14 witness: on the second day the map was cleared, an operator was
\* assigned afterwards, and a further daily_clear_if_needed has just run
C14_Witness ==
  /\ last.op = "daily_clear_if_needed"
  /\ now >= DaySeconds
  /\ osm.last_cleared = get_today(now)
  /\ osm.file # {}

\* C15: a clear that a process runs for some day never removes from the
\* stored map an operator whose set ran wholly after the last-cleared file
\* held that day.
C15_ClearKeepsFresh ==
  [][\A t \in Terminals :
       (ClearSave(t) /\ osm.proc[t].today = get_today(now)) =>
         \A o \in Operators :
           (<<o, osm.proc[t].today>> \in osm.fresh /\ o \in MapKeys(osm.file))
             => o \in MapKeys(osm'.file)]_vars

\* the rows of an operator, in the order they were stored
RowsOf(rows, operator) == SelectSeq(rows, LAMBDA r : r.operator = operator)

\* C16: a log_event whose state is the state of the operator's most
\* recently stored event stores nothing and returns False.
C16_RepeatSuppressed ==
  [][\A o \in Operators, st \in Stations, state \in States :
       LET mine == RowsOf(movement, o)
       IN  (/\ LogEvent(o, st, state)
            /\ mine # <<>>
            /\ mine[Len(mine)].state = state)
             => /\ movement' = movement
                /\ last'.returned = FALSE]_vars

\* C17: no call of start_downtime, stop_downtime,
\* load_active_downtimes_from_log, log_downtime_start or log_downtime_stop
\* ends with an exception, whatever read or write fails during it.
C17_NoExceptionPropagates ==
  last.op \in {"start_downtime", "stop_downtime", "load", "restart",
               "log_downtime_start", "log_downtime_stop"} => ~last.raised

\* C18: stop_downtime closes the open event of every listed operator in
\* the day log named by the operator's index entry, also when that day is
\* not today, and leaves every day log that no such entry names as it is.
C18_StopInRecordedPartition ==
  [][\A t \in Solo, S \in OpLists :
       LET index == active_downtimes[t]
           named == {it \in index : it.operator \in Range(S) /\ it.id # ""}
       IN  StopDowntime(t, S, NoFault) =>
             /\ ~last'.raised
             /\ \A it \in named :
                  \A i \in 1..Len(logs[it.date_str]) :
                    (/\ logs[it.date_str][i].id = it.id
                     /\ logs[it.date_str][i].end_time = None)
                      => /\ Len(logs'[it.date_str]) = Len(logs[it.date_str])
                         /\ logs'[it.date_str][i].id = it.id
                         /\ logs'[it.date_str][i].end_time = isoformat(now)
             /\ \A d \in Days :
                  (\A it \in named : it.date_str # d) => logs'[d] = logs[d]]_vars

\* C19: every event in the day log of day D has a start_time whose
\* calendar date is D, also when the clock passes midnight between the two
\* clock reads of start_downtime.
C19_StoredUnderStartDate ==
  \A d \in Days : \A i \in 1..Len(logs[d]) :
    strftime(fromisoformat(logs[d][i].start_time)) = d

C21_AccessorsReload ==
  [][\A t \in Terminals, o \in Operators :
       /\ OsmGet(t, o, "none") => last'.returned = MapGet(osm.file, o)
       /\ OsmAsDict(t, "none") => last'.returned = osm.file
       /\ \A F \in MapReadFaults :
            /\ \A st \in Stations :
                 OsmSet(t, o, st, F) => osm'.file = MapSet(osm.file, o, st)
            /\ OsmRemove(t, o, F) => osm'.file = MapDel(osm.file, o)]_vars

\* C22: from the same day log and without failures, the core file store
\* and the dev_py38 file store return id lists of the same length and leave
\* the same day log, for every log_downtime_start (also with a reason that
\* is no key of EVENTS) and every log_downtime_stop.
C22_BackendsAgree ==
  [][/\ \A st \in Stations, r \in Reasons, ops \in OpLists :
          LoggerStart(st, ops, r, NoFault) =>
            LET file == logs[strftime(now)]
                c == core_log_downtime_start(file, st, ops, r, now, nextId,
                                             NoFault)
                p == py38_log_downtime_start(file, st, ops, r, now, nextId,
                                             NoFault)
            IN  Len(c.ids) = Len(p.ids) /\ c.file = p.file
     /\ \A d \in Days, ids \in IdLists :
          LoggerStop(d, ids, NoFault) =>
            LET c == core_log_downtime_stop(logs[d], ids, now, TRUE, TRUE,
                                            TRUE)
                p == py38_log_downtime_stop(logs[d], ids, now, TRUE, TRUE)
            IN  Len(c.ret) = Len(p.ret) /\ c.file = p.file]_vars

\* C23: with two terminals running log_downtime_start and
\* log_downtime_stop on the same day log, no file access of either removes
\* a stored event from the log or turns a closed event back into an open
\* one.
C23_WritersKeepBoth ==
  [][\A d \in Days : \A i \in 1..Len(logs[d]) :
       \E j \in 1..Len(logs'[d]) :
         /\ logs'[d][j].id = logs[d][i].id
         /\ logs[d][i].end_time # None => logs'[d][j].end_time # None]_vars

\* C24: with two processes running set for different operators, the save
\* of one set never removes the assignment another operator has in the
\* map file.
C24_SetKeepsOthers ==
  [][\A t \in Terminals :
       SetSave(t) =>
         \A o \in MapKeys(osm.file) \ {osm.proc[t].operator} :
           MapGet(osm'.file, o) = MapGet(osm.file, o)]_vars

\* C25: the sync_time and the local_reference a get_now computes its
\* result from are the two values of one pair computed by a single sync
\* (or both None), however the steps of a resync interleave with it.
C25_NoTornRead ==
  last.op = "get_now" => last.pair \in threads.pairs

\* C25 witness: a get_now has returned from a reference pair while the
\* resync thread, having fetched a newer pair, is about to take the lock
C25_Witness ==
  /\ last.op = "get_now"
  /\ last.pair # NoReference
  /\ threads.th[Resync].pc = "lock"
  /\ threads.th[Resync].new # last.pair

C27_UpdateKeepsOthers ==
  [][\A d \in Days, entries \in SeqsUpTo(UpdateEntries, MaxOps) :
       LET given == {entries[i].id : i \in 1..Len(entries)}
           other(e) == ~HasId(e) \/ e.id \notin given
       IN  (SaveLogUpdate(d, entries) /\ entries # <<>>) =>
             /\ \A i \in 1..Len(entries) : entries[i] \in Range(logs'[d])
             /\ SelectSeq(logs'[d], other) = SelectSeq(logs[d], other)]_vars

\* C28: on a terminal that is alone on the store, every item
\* operator -> {id, date_str} of active_downtimes names an event stored in
\* the day log of date_str with that id, that operator and no end_time,
\* whatever reads or writes failed during the calls made so far.
C28_IndexMatchesLog ==
  \A t \in Solo : \A it \in active_downtimes[t] :
    \E i \in 1..Len(logs[it.date_str]) :
      /\ logs[it.date_str][i].id = it.id
      /\ logs[it.date_str][i].operator = it.operator
      /\ logs[it.date_str][i].end_time = None

\* C29: every closed event in a day log has an end_time that is not
\* earlier than its start_time, also when the logger's clock is a TimeSync
\* whose reference was replaced between the start and the stop.
C29_EndNotBeforeStart ==
  \A d \in Days : \A i \in 1..Len(logs[d]) :
    logs[d][i].end_time # None => SpanSeconds(logs[d][i]) >= 0

\* C30: in server mode, every event the server accepted from a
\* log_downtime_start is contained in the result of every later load_log
\* of its day, also when the server does not answer that load.
C30_ReadYourWrites ==
  last.op = "load_log" =>
    \A i \in 1..Len(server[last.date_str]) :
      server[last.date_str][i] \in Range(last.returned)

====
